---- MODULE Spec2Model ----
(***************************************************************************)
(* Model of src/api.py: the ingestion poller (monitor_client_forms), its   *)
(* watermark (last_processed_timestamp), the on-demand analysis handler    *)
(* (analyze_client_portfolio) and the two store tables they use            *)
(* (client_forms, unified_table).                                          *)
(*                                                                         *)
(* Timestamps are positive integers.  The store stamps every new intake    *)
(* row with a created_at that is larger than every earlier one.  Both      *)
(* coroutines call the synchronous store client, so the only point where   *)
(* the poller yields to the event loop is asyncio.sleep (line 469): the    *)
(* request handler runs only while the poller sleeps.  The store itself is *)
(* shared with other writers, so a new intake row may appear between any   *)
(* two steps of the poller.                                                *)
(***************************************************************************)
EXTENDS Integers, Sequences, FiniteSets, TLC

\* Number of intake rows the environment inserts in a run.
MaxForms == 2

\* Number of on-demand requests in a run.
MaxReq == 1

\* last_processed_timestamp = None (line 35); every timestamp is >= 1.
None == 0

VARIABLES
    client_forms,              \* table client_forms: set of intake rows
    clock,                     \* the current time, in the store's units
    unified_table,             \* table unified_table: client_id -> number of rows
    last_processed_timestamp,  \* the global watermark (line 35)
    pc,                        \* where the poller is: "init", "fetch", "loop", "sleep"
    response,                  \* response.data of the cycle's fetch (line 240)
    idx,                       \* position of the for loop of line 251 in response
    fetch_arg,                 \* the watermark passed to the last .gt('created_at', _) query
    cycle,                     \* how the last query phase ended
    outcome,                   \* what happened to each record of this cycle, in order
    attempts,                  \* client_id -> number of inserts the poller attempted
    initial_wm,                \* the value the initialization gave the watermark
    requests,                  \* number of on-demand requests served
    last_request,              \* what the last on-demand request did
    derivation                 \* a call of one derivation function: input and result

vars == << client_forms, clock, unified_table, last_processed_timestamp, pc,
           response, idx, fetch_arg, cycle, outcome, attempts, initial_wm,
           requests, last_request, derivation >>

store_vars  == << client_forms, clock >>
poller_vars == << last_processed_timestamp, pc, response, idx, fetch_arg,
                  cycle, outcome, attempts, initial_wm >>
request_vars == << requests, last_request >>

ClientIds == 1 .. MaxForms

\* An intake row.  wf says whether the derivation (lines 264-441, and the
\* same functions on lines 510-657) runs through without raising for it.
Forms == [client_id : ClientIds, created_at : 2 .. (MaxForms + 1), wf : BOOLEAN]

\* No derivation function is being looked at.
NoCall == [fn |-> "none", args |-> << >>, done |-> FALSE, raised |-> FALSE,
           value |-> << >>]

NoRequest == [client_id |-> 0, rows |-> "none", insert |-> "none", status |-> 0]

Max(S) == CHOOSE x \in S : \A y \in S : y <= x

\* All orders in which the store may return the rows of S.
Orders(S) ==
    { s \in [1 .. Cardinality(S) -> S] : \A i, j \in DOMAIN s : i # j => s[i] # s[j] }

Init ==
    /\ client_forms = {}
    /\ clock = 1
    /\ unified_table = [c \in ClientIds |-> 0]
    /\ last_processed_timestamp = None
    /\ pc = "init"
    /\ response = << >>
    /\ idx = 1
    /\ fetch_arg = None
    /\ cycle = "none"
    /\ outcome = << >>
    /\ attempts = [c \in ClientIds |-> 0]
    /\ initial_wm = None
    /\ requests = 0
    /\ last_request = NoRequest
    /\ derivation = NoCall

(***************************************************************************)
(* The environment: a client submits a form, the store inserts the row and *)
(* stamps it.                                                              *)
(***************************************************************************)
SubmitForm ==
    /\ Cardinality(client_forms) < MaxForms
    /\ \E ok \in BOOLEAN :
          client_forms' = client_forms \cup
              { [client_id  |-> Cardinality(client_forms) + 1,
                 created_at |-> clock + 1,
                 wf         |-> ok] }
    /\ clock' = clock + 1
    /\ UNCHANGED << derivation, unified_table, poller_vars, request_vars >>

(***************************************************************************)
(* monitor_client_forms: watermark initialization (lines 219-235).         *)
(***************************************************************************)

\* select("created_at").order('created_at', desc=True).limit(1) (line 223)
MostRecent == Max({ r.created_at : r \in client_forms })

\* datetime.now() (line 229): the application's clock, which may run ahead
\* of the store's.
Now == { clock, clock + 1 }

InitWatermarkOk ==
    /\ pc = "init"
    /\ \E w \in (IF client_forms # {} THEN { MostRecent } ELSE Now) :
          /\ last_processed_timestamp' = w
          /\ initial_wm' = w
    /\ pc' = "fetch"
    /\ UNCHANGED << derivation, store_vars, unified_table, response, idx, fetch_arg, cycle,
                    outcome, attempts, request_vars >>

\* Mutant: the exception of line 235 leaves the while loop.
InitWatermarkFaultEscapes ==
    /\ pc = "init"
    /\ pc' = "dead"
    /\ cycle' = "init_fault"
    /\ UNCHANGED << derivation, store_vars, unified_table, last_processed_timestamp, response,
                    idx, fetch_arg, outcome, attempts, initial_wm, request_vars >>

\* Mutant: the handler of line 231 logs the fault and falls through to the
\* fetch of line 240.
InitWatermarkFaultSwallowed ==
    /\ pc = "init"
    /\ pc' = "fetch"
    /\ cycle' = "init_fault"
    /\ UNCHANGED << derivation, store_vars, unified_table, last_processed_timestamp, response,
                    idx, fetch_arg, outcome, attempts, initial_wm, request_vars >>

\* The query of line 223 raises: re-raised on line 235, caught on line 462,
\* and the loop goes on to the sleep of line 469.
InitWatermarkFault ==
    /\ pc = "init"
    /\ pc' = "sleep"
    /\ cycle' = "init_fault"
    /\ UNCHANGED << derivation, store_vars, unified_table, last_processed_timestamp, response,
                    idx, fetch_arg, outcome, attempts, initial_wm, request_vars >>

(***************************************************************************)
(* monitor_client_forms: the fetch (lines 237-249, 459-460).               *)
(***************************************************************************)

\* Mutant: .gte instead of .gt.
NotOlderThan(w) == { r \in client_forms : r.created_at >= w }

\* .gt('created_at', last_processed_timestamp) (line 240)
NewerThan(w) == { r \in client_forms : r.created_at > w }

FetchOk ==
    /\ pc = "fetch"
    /\ \E data \in Orders(NewerThan(last_processed_timestamp)) :
          /\ response' = data
          /\ pc' = IF data # << >> THEN "loop" ELSE "sleep"
    /\ idx' = 1
    /\ outcome' = << >>
    /\ fetch_arg' = last_processed_timestamp
    /\ cycle' = "fetched"
    /\ UNCHANGED << derivation, store_vars, unified_table, last_processed_timestamp, attempts,
                    initial_wm, request_vars >>

\* Mutant: the failed fetch moves the watermark to the current time.
FetchFaultAdvances ==
    /\ pc = "fetch"
    /\ pc' = "sleep"
    /\ response' = << >>
    /\ idx' = 1
    /\ outcome' = << >>
    /\ fetch_arg' = last_processed_timestamp
    /\ cycle' = "fetch_fault"
    /\ last_processed_timestamp' = clock
    /\ UNCHANGED << derivation, store_vars, unified_table, attempts, initial_wm, request_vars >>

\* The query of line 240 raises: re-raised on line 246, caught on line 462.
FetchFault ==
    /\ pc = "fetch"
    /\ pc' = "sleep"
    /\ response' = << >>
    /\ idx' = 1
    /\ outcome' = << >>
    /\ fetch_arg' = last_processed_timestamp
    /\ cycle' = "fetch_fault"
    /\ UNCHANGED << derivation, store_vars, unified_table, last_processed_timestamp, attempts,
                    initial_wm, request_vars >>

(***************************************************************************)
(* monitor_client_forms: the loop over response.data (lines 251-458).      *)
(***************************************************************************)

\* Mutant: line 260 is left out, only lines 449-450 move the watermark.
StampKept(w, created_at) == w

\* Mutant: the watermark is set to the time of processing.
StampNow(w, created_at) == clock

\* last_processed_timestamp = created_at (line 260)
StampRecord(w, created_at) == created_at

\* Lines 449-450, after a successful insert.
StampAfterInsert(w, created_at) ==
    IF w = None \/ created_at > w THEN created_at ELSE w

\* What the loop did with record r.
Did(r, result) == [client_id |-> r.client_id, result |-> result]

\* The for loop takes the next record, or ends and falls to line 469.
LoopNext ==
    /\ idx' = idx + 1
    /\ pc' = IF idx < Len(response) THEN "loop" ELSE "sleep"

\* The derivation (lines 264-441) raises: caught on line 456, continue.
ProcessDeriveFault ==
    /\ pc = "loop"
    /\ ~ response[idx].wf
    /\ last_processed_timestamp' =
          StampRecord(last_processed_timestamp, response[idx].created_at)
    /\ outcome' = Append(outcome, Did(response[idx], "derive_fault"))
    /\ LoopNext
    /\ UNCHANGED << derivation, store_vars, unified_table, response, fetch_arg, cycle, attempts,
                    initial_wm, request_vars >>

\* The insert of line 445 succeeds.
ProcessInsertOk ==
    /\ pc = "loop"
    /\ response[idx].wf
    /\ LET r == response[idx] IN
          /\ last_processed_timestamp' =
                StampAfterInsert(StampRecord(last_processed_timestamp, r.created_at),
                                 r.created_at)
          /\ attempts' = [attempts EXCEPT ![r.client_id] = @ + 1]
          /\ unified_table' = [unified_table EXCEPT ![r.client_id] = @ + 1]
    /\ outcome' = Append(outcome, Did(response[idx], "stored"))
    /\ LoopNext
    /\ UNCHANGED << derivation, store_vars, response, fetch_arg, cycle, initial_wm, request_vars >>

\* Mutant: the handler of line 456 ends the cycle instead of continuing.
ProcessInsertFaultAborts ==
    /\ pc = "loop"
    /\ response[idx].wf
    /\ LET r == response[idx] IN
          /\ last_processed_timestamp' =
                StampRecord(last_processed_timestamp, r.created_at)
          /\ attempts' = [attempts EXCEPT ![r.client_id] = @ + 1]
    /\ outcome' = Append(outcome, Did(response[idx], "insert_fault"))
    /\ idx' = idx + 1
    /\ pc' = "sleep"
    /\ UNCHANGED << derivation, store_vars, unified_table, response, fetch_arg, cycle,
                    initial_wm, request_vars >>

\* The insert of line 445 raises: re-raised on line 454, caught on line 456,
\* continue.
ProcessInsertFault ==
    /\ pc = "loop"
    /\ response[idx].wf
    /\ LET r == response[idx] IN
          /\ last_processed_timestamp' =
                StampRecord(last_processed_timestamp, r.created_at)
          /\ attempts' = [attempts EXCEPT ![r.client_id] = @ + 1]
    /\ outcome' = Append(outcome, Did(response[idx], "insert_fault"))
    /\ LoopNext
    /\ UNCHANGED << derivation, store_vars, unified_table, response, fetch_arg, cycle,
                    initial_wm, request_vars >>

\* await asyncio.sleep(5) (line 469), then the test of line 220.
Sleep ==
    /\ pc = "sleep"
    /\ pc' = IF last_processed_timestamp = None THEN "init" ELSE "fetch"
    /\ UNCHANGED << derivation, store_vars, unified_table, last_processed_timestamp, response,
                    idx, fetch_arg, cycle, outcome, attempts, initial_wm,
                    request_vars >>

Poller ==
    \/ InitWatermarkOk
    \/ InitWatermarkFault
    \/ FetchOk
    \/ FetchFault
    \/ ProcessDeriveFault
    \/ ProcessInsertOk
    \/ ProcessInsertFault
    \/ Sleep

(***************************************************************************)
(* analyze_client_portfolio (lines 496-680).  The handler declares no      *)
(* global and has no await: it runs as one step, between two poll cycles.  *)
(***************************************************************************)

\* .eq('client_id', client_id) (line 503)
RowsOf(cid) == { r \in client_forms : r.client_id = cid }

\* except Exception as e: raise HTTPException(status_code=500, ...) (lines
\* 679-680).  HTTPException is an Exception, so the 404 raised on line 505
\* inside the same try is caught here as well.
Surface(exc) == 500

\* return {...} (lines 668-677)
Returned == 200

Served(cid, rows, insert, status) ==
    /\ requests' = requests + 1
    /\ last_request' =
          [client_id |-> cid, rows |-> rows, insert |-> insert, status |-> status]

\* The read of line 503 raises.
AnalyzeReadFault(cid) ==
    /\ Served(cid, "fault", "none", Surface("store_fault"))
    /\ UNCHANGED << derivation, store_vars, unified_table, poller_vars >>

\* The read returns no row: line 505.
AnalyzeNotFound(cid) ==
    /\ RowsOf(cid) = {}
    /\ Served(cid, "zero", "none", Surface("http_404"))
    /\ UNCHANGED << derivation, store_vars, unified_table, poller_vars >>

\* The derivation (lines 507-657) raises.
AnalyzeDeriveFault(cid) ==
    /\ \E r \in RowsOf(cid) : ~ r.wf
    /\ Served(cid, "found", "none", Surface("derive_fault"))
    /\ UNCHANGED << derivation, store_vars, unified_table, poller_vars >>

\* Mutant: the handler stamps the watermark like the poller does.
AnalyzeInsertOkStamps(cid) ==
    /\ \E r \in RowsOf(cid) :
          /\ r.wf
          /\ last_processed_timestamp' = r.created_at
    /\ unified_table' = [unified_table EXCEPT ![cid] = @ + 1]
    /\ Served(cid, "found", "stored", Returned)
    /\ UNCHANGED << derivation, store_vars, pc, response, idx, fetch_arg, cycle, outcome,
                    attempts, initial_wm >>

\* Mutant: the insert is an upsert on client_id.
AnalyzeInsertOkUpserts(cid) ==
    /\ \E r \in RowsOf(cid) : r.wf
    /\ unified_table' = [unified_table EXCEPT ![cid] = IF @ = 0 THEN 1 ELSE @]
    /\ Served(cid, "found", "stored", Returned)
    /\ UNCHANGED << derivation, store_vars, poller_vars >>

\* The insert of line 662 succeeds.
AnalyzeInsertOk(cid) ==
    /\ \E r \in RowsOf(cid) : r.wf
    /\ unified_table' = [unified_table EXCEPT ![cid] = @ + 1]
    /\ Served(cid, "found", "stored", Returned)
    /\ UNCHANGED << derivation, store_vars, poller_vars >>

\* Mutant: the handler of line 664 lets the insert fault reach line 679.
AnalyzeInsertFaultSurfaces(cid) ==
    /\ \E r \in RowsOf(cid) : r.wf
    /\ Served(cid, "found", "fault", Surface("store_fault"))
    /\ UNCHANGED << derivation, store_vars, unified_table, poller_vars >>

\* The insert of line 662 raises: caught on line 664, the handler returns.
AnalyzeInsertFault(cid) ==
    /\ \E r \in RowsOf(cid) : r.wf
    /\ Served(cid, "found", "fault", Returned)
    /\ UNCHANGED << derivation, store_vars, unified_table, poller_vars >>

analyze_client_portfolio ==
    /\ pc = "sleep"
    /\ requests < MaxReq
    /\ \E cid \in ClientIds :
          \/ AnalyzeReadFault(cid)
          \/ AnalyzeNotFound(cid)
          \/ AnalyzeDeriveFault(cid)
          \/ AnalyzeInsertOk(cid)
          \/ AnalyzeInsertFault(cid)

Next ==
    \/ SubmitForm
    \/ Poller
    \/ analyze_client_portfolio

Spec == Init /\ [][Next]_vars

\* The event loop always resumes the poller task: a step of the poller that
\* stays possible is eventually taken.
FairSpec == Spec /\ WF_vars(Poller)

\* As FairSpec, and the fetch query does not fail forever.
LiveSpec == Spec /\ WF_vars(Poller) /\ SF_vars(FetchOk)

TypeOK ==
    /\ client_forms \subseteq Forms
    /\ clock \in 1 .. (MaxForms + 1)
    /\ last_processed_timestamp \in 0 .. (MaxForms + 2)
    /\ pc \in { "init", "fetch", "loop", "sleep" }
    /\ idx \in 1 .. (MaxForms + 1)
    /\ cycle \in { "none", "init_fault", "fetch_fault", "fetched" }
    /\ requests \in 0 .. MaxReq

(***************************************************************************)
(* The derivation functions (lines 65-207).  They are pure: each is looked *)
(* at on its own, applied to one input drawn from a bounded set.  Money    *)
(* and ratios are integers; a ratio rounded to one decimal is kept in      *)
(* tenths of a month.                                                      *)
(***************************************************************************)

system_vars == << client_forms, clock, unified_table, last_processed_timestamp,
                  pc, response, idx, fetch_arg, cycle, outcome, attempts,
                  initial_wm, requests, last_request >>

\* A key that the mapping does not have, and a key whose value is None/null.
Absent == "<absent>"
Null == "<null>"

Max2(a, b) == IF a >= b THEN a ELSE b
Min2(a, b) == IF a <= b THEN a ELSE b

\* The input is set, the function has not run yet.
Call(fn, args) ==
    [fn |-> fn, args |-> args, done |-> FALSE, raised |-> FALSE, value |-> << >>]

\* The function returned v.
Return(v) == [derivation EXCEPT !.done = TRUE, !.value = v]

\* The function raised.
Raise == [derivation EXCEPT !.done = TRUE, !.raised = TRUE]

\* str.lower() on the tolerance strings looked at.
Lower(s) ==
    CASE s \in { "high", "High", "HIGH" } -> "high"
      [] s \in { "moderate", "Moderate" } -> "moderate"
      [] s \in { "low", "Low", "LOW" } -> "low"
      [] s \in { "aggressive", "Aggressive" } -> "aggressive"
      [] s = "Get me out of here! Sell everything!" ->
             "get me out of here! sell everything!"
      [] OTHER -> s

\* The values of risk_tolerance looked at.
Tolerances ==
    { "high", "High", "HIGH", "moderate", "Moderate", "low", "Low", "LOW",
      "aggressive", "Aggressive", "Get me out of here! Sell everything!" }

Ages == { 25, 29, 30, 44, 45, 50, 51, 55, 70 }

\* emergency_fund_ratio as calculate_investment_capacity returns it, in tenths.
Months == { 0, 10, 29, 30, 45, 59, 60, 61, 171 }

(***************************************************************************)
(* generate_portfolio_strategy (lines 169-207).                            *)
(***************************************************************************)

\* The table of lines 176-195.
allocations ==
    [ high     |-> [equity |-> 70, debt |-> 20, gold |-> 5,  real_estate |-> 5],
      moderate |-> [equity |-> 50, debt |-> 30, gold |-> 10, real_estate |-> 10],
      low      |-> [equity |-> 30, debt |-> 50, gold |-> 10, real_estate |-> 10] ]

\* allocations.get(risk_tolerance, allocations['moderate']) (line 197)
base_allocation(risk_tolerance) ==
    IF risk_tolerance \in DOMAIN allocations
    THEN allocations[risk_tolerance]
    ELSE allocations["moderate"]

\* Mutant: the age branch forgets to add to debt.
AgeShiftNoDebt(base) ==
    [base EXCEPT !.equity = Max2(30, base.equity - 10)]

\* Mutant: the age branch uses the floor of the liquidity branch.
AgeShiftFloor20(base) ==
    [base EXCEPT !.equity = Max2(20, base.equity - 10), !.debt = base.debt + 10]

\* Lines 201-202.
AgeShift(base) ==
    [base EXCEPT !.equity = Max2(30, base.equity - 10), !.debt = base.debt + 10]

\* Mutant: the liquidity branch caps debt at 50.
LiquidityShiftCap50(base) ==
    [base EXCEPT !.debt = Min2(50, base.debt + 10),
                 !.equity = Max2(20, base.equity - 10)]

\* Lines 204-205.
LiquidityShift(base) ==
    [base EXCEPT !.debt = Min2(60, base.debt + 10),
                 !.equity = Max2(20, base.equity - 10)]

\* Mutant: "if" instead of "elif" on line 203, both shifts can apply.
AdjustBoth(base, age, emergency_months) ==
    LET a == IF age > 50 THEN AgeShift(base) ELSE base
    IN  IF emergency_months < 60 THEN LiquidityShift(a) ELSE a

\* Lines 199-205; emergency_months is in tenths, 60 is 6 months.
Adjust(base, age, emergency_months) ==
    IF age > 50 THEN AgeShift(base)
    ELSE IF emergency_months < 60 THEN LiquidityShift(base)
    ELSE base

generate_portfolio_strategy(risk_tolerance, age, emergency_months) ==
    Adjust(base_allocation(Lower(risk_tolerance)), age, emergency_months)

AllocationInputs ==
    [risk_tolerance : Tolerances, age : Ages, emergency_months : Months]

\* client_data['risk_tolerance'].lower() raises when the key is absent or null
\* (line 171).
ApplyAllocation ==
    /\ derivation.fn = "generate_portfolio_strategy"
    /\ ~ derivation.done
    /\ LET a == derivation.args IN
          derivation' =
              IF a.risk_tolerance \in { Absent, Null } THEN Raise
              ELSE Return(generate_portfolio_strategy(
                              a.risk_tolerance, a.age, a.emergency_months))
    /\ UNCHANGED system_vars

(***************************************************************************)
(* Values of the fields of an intake row, as the store returns them.       *)
(***************************************************************************)

Num(n) == [kind |-> "num", n |-> n]          \* a number
NumStr(n) == [kind |-> "numstr", n |-> n]    \* a string that spells a number
Junk == [kind |-> "junk", n |-> 0]           \* a string that spells no number
NullValue == [kind |-> "null", n |-> 0]      \* the key is there, its value is None
NoKey == [kind |-> "absent", n |-> 0]        \* the row has no such key

\* client_data.get(key, default): the default only replaces a missing key.
Get(v, default) == IF v.kind = "absent" THEN Num(default) ELSE v

\* float(x) and int(x) raise TypeError on None and ValueError on a string
\* that spells no number.
Coercible(v) == v.kind \in { "num", "numstr" }

\* float(x), int(x) where they do not raise (all numbers here are whole).
NumberOf(v) == v.n

\* round(x, 1) of the ratio a / b, in tenths.  The inputs looked at have no
\* ratio exactly halfway between two tenths.
RoundTenths(a, b) == (20 * a + b) \div (2 * b)

(***************************************************************************)
(* determine_risk_tolerance (lines 65-72).  No line of the file calls it.  *)
(***************************************************************************)

determine_risk_tolerance(scenario_answer) ==
    CASE scenario_answer = "Get me out of here! Sell everything!" -> "low"
      [] scenario_answer = "Let me wait and watch for a while" -> "moderate"
      [] scenario_answer = "Great time to buy more at a discount!" -> "high"
      [] OTHER -> "moderate"

ScenarioAnswers ==
    { "Get me out of here! Sell everything!", "Let me wait and watch for a while",
      "Great time to buy more at a discount!", "high", "Aggressive", "" }

ApplyRiskTolerance ==
    /\ derivation.fn = "determine_risk_tolerance"
    /\ ~ derivation.done
    /\ derivation' = Return(determine_risk_tolerance(derivation.args))
    /\ UNCHANGED system_vars

(***************************************************************************)
(* calculate_investment_capacity (lines 105-132).                          *)
(***************************************************************************)

MoneyFields ==
    { "monthly_salary", "monthly_side_income", "monthly_other_income",
      "monthly_bills", "monthly_daily_life", "monthly_entertainment",
      "monthly_savings", "emergency_cash" }

\* The values of emergency_cash looked at.
Cash == { 0, 299, 300, 460, 599, 600, 1720 }

\* Rows whose money fields are all numbers.
NumericRows ==
    [ monthly_salary        : { Num(5000) },
      monthly_side_income   : { Num(0) },
      monthly_other_income  : { Num(200) },
      monthly_bills         : { Num(0), Num(60) },
      monthly_daily_life    : { Num(0), Num(30) },
      monthly_entertainment : { Num(0), Num(10) },
      monthly_savings       : { Num(1000) },
      emergency_cash        : { Num(c) : c \in Cash } ]

\* Rows in which one money field is missing, null, a numeric string or a
\* string that spells no number.
OddRows ==
    { [r EXCEPT ![f] = v] :
        r \in NumericRows, f \in MoneyFields,
        v \in { NoKey, NullValue, Junk, NumStr(100) } }

\* float(client_data.get(key, 0)) raises for one of the fields.
MoneyRaises(client_data) ==
    \E f \in MoneyFields : ~ Coercible(Get(client_data[f], 0))

\* float(client_data.get(key, 0))
Money(client_data, f) == NumberOf(Get(client_data[f], 0))

\* Lines 113-117 and 139-143.
monthly_expenses(client_data) ==
    Money(client_data, "monthly_bills") + Money(client_data, "monthly_daily_life")
        + Money(client_data, "monthly_entertainment")

\* Whether calculate_investment_capacity raises (lines 107-120).
CapacityRaises(client_data) == MoneyRaises(client_data)

calculate_investment_capacity(client_data) ==
    LET expenses == monthly_expenses(client_data)
        cash == Money(client_data, "emergency_cash")
    IN  [ monthly_income |->
              Money(client_data, "monthly_salary")
                  + Money(client_data, "monthly_side_income")
                  + Money(client_data, "monthly_other_income"),
          monthly_expenses |-> expenses,
          monthly_savings |-> Money(client_data, "monthly_savings"),
          emergency_cash |-> cash,
          annual_investment_capacity |-> Money(client_data, "monthly_savings") * 12,
          emergency_fund_ratio |->
              IF expenses > 0 THEN RoundTenths(cash, expenses) ELSE 0 ]

ApplyCapacity ==
    /\ derivation.fn = "calculate_investment_capacity"
    /\ ~ derivation.done
    /\ derivation' =
          IF CapacityRaises(derivation.args) THEN Raise
          ELSE Return(calculate_investment_capacity(derivation.args))
    /\ UNCHANGED system_vars

(***************************************************************************)
(* determine_risk_profile (lines 134-167).                                 *)
(***************************************************************************)

\* The code points of the band labels: Python compares strings by them.
CodePoints(label) ==
    CASE label = "High"   -> << 72, 105, 103, 104 >>
      [] label = "Medium" -> << 77, 101, 100, 105, 117, 109 >>
      [] label = "Low"    -> << 76, 111, 119 >>

RECURSIVE SeqLess(_, _)
\* s < t for strings, as sequences of code points.
SeqLess(s, t) ==
    IF t = << >> THEN FALSE
    ELSE IF s = << >> THEN TRUE
    ELSE IF Head(s) # Head(t) THEN Head(s) < Head(t)
    ELSE SeqLess(Tail(s), Tail(t))

\* min(a, b) on two strings (line 160).
StrMin(a, b) == IF SeqLess(CodePoints(b), CodePoints(a)) THEN b ELSE a

\* Lines 149-154.
AgeBand(age) ==
    IF age < 30 THEN "High" ELSE IF age < 45 THEN "Medium" ELSE "Low"

\* Lines 146-160; the ratio cash / expenses is compared without rounding.
risk_capacity(age, cash, expenses) ==
    IF expenses <= 0 \/ cash < 3 * expenses THEN "Low"
    ELSE IF cash < 6 * expenses THEN StrMin(AgeBand(age), "Medium")
    ELSE AgeBand(age)

\* Whether determine_risk_profile raises (lines 136-143).
ProfileRaises(client_data) ==
    \/ ~ Coercible(Get(client_data.age, 35))
    \/ client_data.risk_tolerance = Null
    \/ \E f \in { "emergency_cash", "monthly_bills", "monthly_daily_life",
                  "monthly_entertainment" } : ~ Coercible(Get(client_data[f], 0))

\* client_data.get('risk_tolerance', 'moderate').lower() (line 137)
tolerance_level(declared) ==
    IF declared = Absent THEN "moderate" ELSE Lower(declared)

determine_risk_profile(client_data) ==
    LET expenses == monthly_expenses(client_data)
        cash == Money(client_data, "emergency_cash")
        age == NumberOf(Get(client_data.age, 35))
    IN  [ tolerance_level |-> tolerance_level(client_data.risk_tolerance),
          risk_capacity |-> risk_capacity(age, cash, expenses),
          investment_horizon |-> "10 years",
          emergency_fund_ratio |->
              IF expenses > 0 THEN RoundTenths(cash, expenses) ELSE 0 ]

ProfileInputs ==
    [ age                   : { Num(a) : a \in Ages } \cup { NoKey, NullValue },
      risk_tolerance        : Tolerances \cup { Absent, Null },
      emergency_cash        : { Num(c) : c \in Cash },
      monthly_bills         : { Num(0), Num(60) },
      monthly_daily_life    : { Num(30) },
      monthly_entertainment : { Num(0), Num(10) } ]

ApplyRiskProfile ==
    /\ derivation.fn = "determine_risk_profile"
    /\ ~ derivation.done
    /\ derivation' =
          IF ProfileRaises(derivation.args) THEN Raise
          ELSE Return(determine_risk_profile(derivation.args))
    /\ UNCHANGED system_vars

(***************************************************************************)
(* process_financial_goals (lines 74-103).  A payload is what arrives      *)
(* (a string, a dict, anything else), what json.loads makes of it, and,    *)
(* when that is a mapping, its entries in key order.  The description of   *)
(* a goal is copied through str() and is left out.                         *)
(***************************************************************************)

\* Number of entries of a goals payload.
MaxGoals == 2

BoolTrue == [kind |-> "true", n |-> 1]     \* JSON true
BoolFalse == [kind |-> "false", n |-> 0]   \* JSON false
Blank == [kind |-> "blank", n |-> 0]       \* a string of spaces

GoalTypes == << "retirement", "vacation", "house" >>

\* The details of one entry: a mapping with these fields, or something that
\* is not a mapping (a string, a number, null).
Details ==
    [ mapping  : { TRUE },
      selected : { BoolTrue, BoolFalse, NoKey, Junk },
      years    : { NoKey, NumStr(15), Junk, Blank },
      amount   : { NoKey, NumStr(2000), Junk } ]
    \cup
    [ mapping : { FALSE }, selected : { NoKey }, years : { NoKey }, amount : { NoKey } ]

EntryLists == UNION { [1 .. n -> Details] : n \in 0 .. MaxGoals }

GoalPayloads ==
    [ form : { "text", "mapping" }, decodes : { "mapping" }, entries : EntryLists ]
    \cup
    [ form : { "text", "other" }, decodes : { "other", "error" }, entries : { << >> } ]

\* bool(x): what an if makes of a value.
Truthy(v) ==
    CASE v.kind \in { "absent", "null", "false" } -> FALSE
      [] v.kind = "num" -> v.n # 0
      [] OTHER -> TRUE

\* "x and str(x).strip()" (lines 88-89): whether the conversion is tried.
Converted(v) == Truthy(v) /\ v.kind # "blank"

\* The conversion raises ValueError (line 90).
ConversionRaises(v) == Converted(v) /\ v.kind = "junk"

\* int(x) or float(x) of a value that converts, else the 0 of the else branch.
ConvertedOrZero(v) == IF Converted(v) THEN v.n ELSE 0

\* Lines 87-99: one goal record.  The handler of line 90 resets both fields.
GoalRecord(type, details) ==
    IF ConversionRaises(details.years) \/ ConversionRaises(details.amount)
    THEN [type |-> type, years |-> 0, amount |-> 0]
    ELSE [type |-> type, years |-> ConvertedOrZero(details.years),
          amount |-> ConvertedOrZero(details.amount)]

\* if details.get('selected', False) (line 86)
Selected(details) == Truthy(details.selected)

RECURSIVE Walk(_, _, _)
\* The loop of lines 85-99 from entry i on: the list built, or the exception
\* of details.get on an entry that is no mapping.
Walk(entries, i, acc) ==
    IF i > Len(entries) THEN [exc |-> "none", goals |-> acc]
    ELSE IF ~ entries[i].mapping THEN [exc |-> "AttributeError", goals |-> acc]
    ELSE IF Selected(entries[i])
         THEN Walk(entries, i + 1, Append(acc, GoalRecord(GoalTypes[i], entries[i])))
         ELSE Walk(entries, i + 1, acc)

\* Lines 77-100, the body of the try.
GoalsBody(payload) ==
    IF payload.decodes = "error" THEN [exc |-> "JSONDecodeError", goals |-> << >>]
    ELSE IF payload.decodes = "other" THEN [exc |-> "AttributeError", goals |-> << >>]
    ELSE Walk(payload.entries, 1, << >>)

\* Mutant: the handler catches decode errors only.
CaughtDecodeOnly(exc) == exc = "JSONDecodeError"

\* except Exception (line 101)
Caught(exc) == TRUE

\* The result of the body goes to the caller, or the handler returns [].
ApplyGoals ==
    /\ derivation.fn = "process_financial_goals"
    /\ ~ derivation.done
    /\ LET body == GoalsBody(derivation.args) IN
          derivation' =
              IF body.exc = "none" THEN Return(body.goals)
              ELSE IF Caught(body.exc) THEN Return(<< >>)
              ELSE Raise
    /\ UNCHANGED system_vars

(***************************************************************************)
(* The three calls on one intake row (lines 264, 274, 278 in the poller,   *)
(* lines 543 and 547 in the handler): the engine is given the metrics that *)
(* calculate_investment_capacity returned for the row.                     *)
(***************************************************************************)

\* Rows with every field the three functions read, all of them numbers.
AnalysisInputs ==
    [ age                   : { Num(a) : a \in Ages },
      risk_tolerance        : { "high", "moderate", "low" },
      monthly_salary        : { Num(5000) },
      monthly_side_income   : { Num(0) },
      monthly_other_income  : { Num(200) },
      monthly_bills         : { Num(0), Num(60) },
      monthly_daily_life    : { Num(30) },
      monthly_entertainment : { Num(0), Num(10) },
      monthly_savings       : { Num(1000) },
      emergency_cash        : { Num(c) : c \in Cash } ]

\* The condition of lines 157-159 on the ratio that line 146 computes: the
\* profiler takes the Low override or the Medium cap.
BelowSixUnrounded(client_data) ==
    LET expenses == monthly_expenses(client_data)
        cash == Money(client_data, "emergency_cash")
    IN  expenses <= 0 \/ cash < 6 * expenses

\* Lines 264, 274 and 278.
Analysis(client_data) ==
    LET investment_capacity == calculate_investment_capacity(client_data)
    IN  [ investment_capacity |-> investment_capacity,
          risk_profile |-> determine_risk_profile(client_data),
          portfolio_strategy |->
              generate_portfolio_strategy(
                  client_data.risk_tolerance,
                  NumberOf(client_data.age),
                  investment_capacity.emergency_fund_ratio) ]

ApplyAnalysis ==
    /\ derivation.fn = "analysis"
    /\ ~ derivation.done
    /\ derivation' =
          IF \/ CapacityRaises(derivation.args)
             \/ ProfileRaises(derivation.args)
             \/ ~ Coercible(derivation.args.age)
          THEN Raise
          ELSE Return(Analysis(derivation.args))
    /\ UNCHANGED system_vars

DeriveStart ==
    \/ \E a \in AllocationInputs \cup
                [risk_tolerance : { Absent, Null }, age : { 30 },
                 emergency_months : { 60 }] :
          derivation = Call("generate_portfolio_strategy", a)
    \/ \E a \in ScenarioAnswers : derivation = Call("determine_risk_tolerance", a)
    \/ \E a \in NumericRows \cup OddRows :
          derivation = Call("calculate_investment_capacity", a)
    \/ \E a \in ProfileInputs : derivation = Call("determine_risk_profile", a)
    \/ \E a \in GoalPayloads : derivation = Call("process_financial_goals", a)
    \/ \E a \in AnalysisInputs : derivation = Call("analysis", a)

DeriveInit ==
    /\ client_forms = {}
    /\ clock = 1
    /\ unified_table = [c \in ClientIds |-> 0]
    /\ last_processed_timestamp = None
    /\ pc = "init"
    /\ response = << >>
    /\ idx = 1
    /\ fetch_arg = None
    /\ cycle = "none"
    /\ outcome = << >>
    /\ attempts = [c \in ClientIds |-> 0]
    /\ initial_wm = None
    /\ requests = 0
    /\ last_request = NoRequest
    /\ DeriveStart

DeriveNext ==
    \/ ApplyAllocation
    \/ ApplyRiskTolerance
    \/ ApplyCapacity
    \/ ApplyRiskProfile
    \/ ApplyGoals
    \/ ApplyAnalysis

DeriveSpec == DeriveInit /\ [][DeriveNext]_vars

\* The call of generate_portfolio_strategy has returned.
AllocationDone ==
    /\ derivation.fn = "generate_portfolio_strategy"
    /\ derivation.done
    /\ ~ derivation.raised

Total(a) == a.equity + a.debt + a.gold + a.real_estate

(***************************************************************************)
(* Properties.                                                             *)
(***************************************************************************)

Faults == { "derive_fault", "insert_fault" }

\* The created_at values of the records of a response.
Stamps(data) == { data[i].created_at : i \in DOMAIN data }

\* C1: the watermark never decreases: no step of the poller leaves
\* last_processed_timestamp smaller than it was.
C1_WatermarkNeverDecreases ==
    [][last_processed_timestamp' >= last_processed_timestamp]_vars

\* C2: a cycle whose fetch faults ends with the watermark it passed to the
\* fetch, attempts no insert and processes no record, and the fetch of the
\* next cycle is issued with that same watermark.
C2_FetchFaultKeepsWatermark ==
    [][ /\ cycle' = "fetch_fault" =>
            /\ last_processed_timestamp' = fetch_arg'
            /\ attempts' = attempts
            /\ outcome' = << >>
            /\ pc' \in { "sleep", "fetch" }
        /\ (cycle = "fetch_fault" /\ pc = "fetch" /\ pc' # "fetch") =>
            fetch_arg' = fetch_arg
      ]_vars

\* C2 witness: the fetch faulted while new records were waiting, and the next
\* cycle is about to fetch again.
C2_Witness ==
    /\ cycle = "fetch_fault"
    /\ pc = "fetch"
    /\ NewerThan(last_processed_timestamp) # {}

\* C3: a fault in the derivation or the insert of one record does not end the
\* cycle: the loop takes the records of the response one by one in the order
\* returned, and when it is over every record of the response was taken.
C3_PerRecordIsolation ==
    cycle = "fetched" =>
        /\ Len(outcome) = (IF pc = "loop" THEN idx - 1 ELSE Len(response))
        /\ \A i \in DOMAIN outcome : outcome[i].client_id = response[i].client_id

\* C3 witness: a cycle is over in which the first record faulted and a later
\* record was stored.
C3_Witness ==
    /\ pc = "sleep"
    /\ cycle = "fetched"
    /\ Len(outcome) >= 2
    /\ outcome[1].result \in Faults
    /\ outcome[Len(outcome)].result = "stored"

\* A fault happened in the last query phase or in this cycle's loop.
Faulted ==
    \/ cycle \in { "init_fault", "fetch_fault" }
    \/ \E i \in DOMAIN outcome : outcome[i].result \in Faults

\* C4: no fault ends the poller: after any fault it reaches the sleep, and
\* after every sleep it starts another cycle.
C4_PollerNeverStops ==
    /\ Faulted ~> (pc = "sleep")
    /\ (pc = "sleep") ~> (pc \in { "init", "fetch" })

\* C4 witness: a cycle with a per-record fault is over and the next cycle is
\* at its fetch.
C4_Witness ==
    /\ pc = "fetch"
    /\ cycle = "fetched"
    /\ \E i \in DOMAIN outcome : outcome[i].result \in Faults

\* C5: every well-formed intake row that is in the store with a created_at
\* above the (initialized) watermark eventually has its insert attempted.
C5_AtLeastOnce ==
    \A r \in { f \in Forms : f.wf } :
        (r \in client_forms /\ last_processed_timestamp # None
            /\ r.created_at > last_processed_timestamp)
        ~> (attempts[r.client_id] >= 1)

\* C5 witness: a row stamped after the initial watermark had its insert
\* attempted after an earlier fetch had faulted or after the watermark moved.
C5_Witness ==
    /\ initial_wm # None
    /\ \E r \in client_forms :
          /\ r.wf
          /\ r.created_at > initial_wm
          /\ attempts[r.client_id] >= 1
          /\ initial_wm < fetch_arg

\* C6: when a cycle that processed at least one record is over, the
\* watermark is the maximum of its value at the fetch and the created_at of
\* every record of the response.
C6_AdvanceToMax ==
    (pc = "sleep" /\ cycle = "fetched" /\ response # << >>) =>
        last_processed_timestamp = Max({ fetch_arg } \cup Stamps(response))

\* C7: the poller attempts the insert for a given intake row at most once.
C7_AtMostOnce ==
    \A c \in ClientIds : attempts[c] <= 1

\* C8: an on-demand lookup that finds no row answers 404 and attempts no
\* insert.
C8_NotFoundIs404 ==
    last_request.rows = "zero" =>
        (last_request.status = 404 /\ last_request.insert = "none")

\* C9: no fetch ever returns a row whose created_at is at or below the
\* initial watermark, so such a row is never processed.
C9_OldRowsNeverProcessed ==
    initial_wm # None =>
        \A i \in DOMAIN response : response[i].created_at > initial_wm

\* C9 witness: a row at or below the initial watermark is in the store and a
\* later cycle has processed newer rows.
C9_Witness ==
    /\ initial_wm # None
    /\ \E r \in client_forms : r.created_at <= initial_wm
    /\ pc = "sleep"
    /\ cycle = "fetched"
    /\ response # << >>

\* C10: an on-demand request changes nothing the poller reads or writes: the
\* watermark, the position of the poller, its response and its last fetch
\* range are the same after the request as before it.
C10_RequestLeavesPollerAlone ==
    [][requests' # requests =>
          UNCHANGED << last_processed_timestamp, pc, response, idx, fetch_arg,
                       cycle, outcome, attempts, initial_wm, client_forms >>]_vars

\* C10 witness: a request was served, and stored its analysis, for a client
\* the poller had processed, with the watermark set.
C10_Witness ==
    /\ requests >= 1
    /\ last_request.insert = "stored"
    /\ last_processed_timestamp # None
    /\ attempts[last_request.client_id] >= 1

\* C11 as stated: the four sleeves returned always sum to 100.
C11_SumIs100 ==
    AllocationDone => Total(derivation.value) = 100

\* C11 amended: the four sleeves returned sum to 100, except for tolerance
\* low with age > 50, where they sum to 110.
C11_SumIs100UnlessLowOver50 ==
    AllocationDone =>
        Total(derivation.value) =
            (IF derivation.args.age > 50
                /\ Lower(derivation.args.risk_tolerance) = "low"
             THEN 110 ELSE 100)

\* C11 witness: the engine returned for tolerance low and age > 50.
C11_Witness ==
    /\ AllocationDone
    /\ derivation.args.age > 50
    /\ Lower(derivation.args.risk_tolerance) = "low"
    /\ derivation.args.emergency_months < 60

\* C12: for age > 50 the engine returns equity = max(30, base equity - 10)
\* and debt = base debt + 10, whatever the emergency_fund_ratio; age 55 with
\* tolerance high gives 60, 30, 5, 5.
C12_AgeShift ==
    (AllocationDone /\ derivation.args.age > 50) =>
        LET a == derivation.args
            b == base_allocation(Lower(a.risk_tolerance))
            v == derivation.value
        IN  /\ v.equity = Max2(30, b.equity - 10)
            /\ v.debt = b.debt + 10
            /\ \A m \in Months :
                  generate_portfolio_strategy(a.risk_tolerance, a.age, m) = v
            /\ (a.age = 55 /\ a.risk_tolerance = "high") =>
                  v = [equity |-> 60, debt |-> 30, gold |-> 5, real_estate |-> 5]

\* C12 witness: the engine returned for age 55, tolerance high and a thin
\* emergency fund.
C12_Witness ==
    /\ AllocationDone
    /\ derivation.args.age = 55
    /\ derivation.args.risk_tolerance = "high"
    /\ derivation.args.emergency_months < 60

\* C13: for age <= 50 the engine applies the liquidity shift (equity floored
\* at 20, debt capped at 60) exactly when emergency_fund_ratio < 6, and else
\* returns the base table; for age > 50 only the age shift is applied.
C13_LiquidityShift ==
    AllocationDone =>
        LET a == derivation.args
            b == base_allocation(Lower(a.risk_tolerance))
            v == derivation.value
        IN  /\ (a.age <= 50 /\ a.emergency_months < 60) =>
                  /\ v.equity = Max2(20, b.equity - 10)
                  /\ v.debt = Min2(60, b.debt + 10)
            /\ (a.age <= 50 /\ a.emergency_months >= 60) => v = b
            /\ a.age > 50 =>
                  /\ v.equity = Max2(30, b.equity - 10)
                  /\ v.debt = b.debt + 10

\* C13 witness: the engine returned for age <= 50, tolerance low and a thin
\* emergency fund, where the floor and the cap both bind.
C13_Witness ==
    /\ AllocationDone
    /\ derivation.args.age = 50
    /\ Lower(derivation.args.risk_tolerance) = "low"
    /\ derivation.args.emergency_months = 59
    /\ derivation.value.equity = 20
    /\ derivation.value.debt = 60

\* The call of determine_risk_profile has returned.
ProfileDone ==
    /\ derivation.fn = "determine_risk_profile"
    /\ derivation.done
    /\ ~ derivation.raised

\* C14: with 3 <= emergency_fund_ratio < 6 the risk_capacity is the lower of
\* the age band and Medium in the order Low < Medium < High, so never High;
\* with emergency_fund_ratio < 3 it is Low.
C14_CapAtMedium ==
    ProfileDone =>
        LET a == derivation.args
            expenses == monthly_expenses(a)
            cash == Money(a, "emergency_cash")
            age == NumberOf(Get(a.age, 35))
            got == derivation.value.risk_capacity
        IN  /\ (expenses > 0 /\ 3 * expenses <= cash /\ cash < 6 * expenses) =>
                  /\ got = (IF age < 30 THEN "Medium"
                            ELSE IF age < 45 THEN "Medium" ELSE "Low")
                  /\ got # "High"
            /\ (expenses <= 0 \/ cash < 3 * expenses) => got = "Low"

\* C15: the tolerance_level of a Risk Profile is low, moderate or high, and
\* a declared tolerance that is not one of these gives moderate.
C15_ToleranceLevels ==
    ProfileDone =>
        LET declared == derivation.args.risk_tolerance
            got == derivation.value.tolerance_level
        IN  /\ got \in { "low", "moderate", "high" }
            /\ (declared = Absent \/ Lower(declared) \notin { "low", "moderate", "high" })
                  => got = "moderate"

\* What a money field counts for when what cannot be coerced counts as 0.
AmountOrZero(v) == IF Coercible(v) THEN v.n ELSE 0

\* C16: calculate_investment_capacity never raises: a money field that is
\* absent, null or not a number counts as 0 and the metrics are returned.
C16_CapacityNeverRaises ==
    (derivation.fn = "calculate_investment_capacity" /\ derivation.done) =>
        /\ ~ derivation.raised
        /\ derivation.value.monthly_income =
              AmountOrZero(derivation.args.monthly_salary)
                  + AmountOrZero(derivation.args.monthly_side_income)
                  + AmountOrZero(derivation.args.monthly_other_income)
        /\ derivation.value.monthly_savings =
              AmountOrZero(derivation.args.monthly_savings)

\* The call of process_financial_goals is over.
GoalsDone ==
    /\ derivation.fn = "process_financial_goals"
    /\ derivation.done

\* C17: process_financial_goals never raises, it returns a list, and the
\* list is empty when the payload does not decode to a mapping.
C17_GoalsNeverRaise ==
    GoalsDone =>
        /\ ~ derivation.raised
        /\ DOMAIN derivation.value = 1 .. Len(derivation.value)
        /\ derivation.args.decodes # "mapping" => derivation.value = << >>

\* C17 witness: the call is over for a string that decodes to something that
\* is no mapping.
C17_Witness ==
    /\ GoalsDone
    /\ derivation.args.form = "text"
    /\ derivation.args.decodes = "other"

RECURSIVE TypesMarkedTrue(_, _)
\* The types of the entries from i on whose selected field is true.
TypesMarkedTrue(entries, i) ==
    IF i > Len(entries) THEN << >>
    ELSE IF entries[i].mapping /\ entries[i].selected = BoolTrue
         THEN << GoalTypes[i] >> \o TypesMarkedTrue(entries, i + 1)
         ELSE TypesMarkedTrue(entries, i + 1)

\* C18: the list has one record for exactly the entries whose selected field
\* is true, in key order.
C18_ExactlyTheSelected ==
    (GoalsDone /\ ~ derivation.raised /\ derivation.args.decodes = "mapping") =>
        [i \in DOMAIN derivation.value |-> derivation.value[i].type]
            = TypesMarkedTrue(derivation.args.entries, 1)

\* The position of a goal type in the payload.
PositionOf(type) == CHOOSE i \in DOMAIN GoalTypes : GoalTypes[i] = type

\* What a field parses to on its own: its number, or 0 when it is missing,
\* blank or spells no number.
ParsedAlone(v) == IF Converted(v) /\ ~ ConversionRaises(v) THEN v.n ELSE 0

\* C19: in every goal record, years is what the years field parses to and
\* amount is what the amount field parses to, each on its own.
C19_FieldsParseAlone ==
    (GoalsDone /\ ~ derivation.raised) =>
        \A i \in DOMAIN derivation.value :
            LET g == derivation.value[i]
                e == derivation.args.entries[PositionOf(g.type)]
            IN  /\ g.years = ParsedAlone(e.years)
                /\ g.amount = ParsedAlone(e.amount)

\* C20 as stated: an on-demand request whose read or whose insert faults
\* answers with a failure.
C20_StoreFaultsSurface ==
    (last_request.rows = "fault" \/ last_request.insert = "fault") =>
        last_request.status = 500

\* C20 amended: a fault of the read answers with a failure (500); a fault of
\* the insert is swallowed and the request answers with the document (200).
C20_ReadFaultSurfacesInsertFaultDoesNot ==
    /\ last_request.rows = "fault" => last_request.status = 500
    /\ last_request.insert = "fault" => last_request.status = 200

\* C20 witness: a request found its row and its insert faulted.
C20_Witness ==
    /\ last_request.rows = "found"
    /\ last_request.insert = "fault"

\* C21: when a poll cycle is over, the watermark is at or above the value the
\* cycle's fetch was issued with, and strictly above it when the fetch
\* returned a record, whatever the order of the records and whichever of
\* them faulted.
C21_ForwardAcrossCycles ==
    (pc = "sleep" /\ cycle \in { "fetched", "fetch_fault" }) =>
        /\ last_processed_timestamp >= fetch_arg
        /\ response # << >> => last_processed_timestamp > fetch_arg

\* C21 witness: a cycle is over whose fetch returned the newer record first
\* and in which a record faulted.
C21_Witness ==
    /\ pc = "sleep"
    /\ cycle = "fetched"
    /\ Len(response) >= 2
    /\ response[1].created_at > response[2].created_at
    /\ \E i \in DOMAIN outcome : outcome[i].result \in Faults

\* C22: the watermark is initialized once: the fetch is never issued and no
\* record is processed while the watermark is unset; a step in which the
\* initialization query faults leaves the watermark unset and goes to the
\* sleep without a fetch or an insert, and the cycle after a sleep with the
\* watermark unset starts with the initialization query; the initialization
\* query is issued only while the watermark is unset, and a watermark that
\* was set is never unset nor initialized again.
C22_InitializedOnce ==
    /\ [](pc \in { "fetch", "loop" } => last_processed_timestamp # None)
    /\ [](pc = "init" => last_processed_timestamp = None)
    /\ [][(pc = "init" /\ pc' # "init" /\ last_processed_timestamp' = None) =>
              (/\ pc' = "sleep"
               /\ UNCHANGED << response, idx, fetch_arg, outcome, attempts,
                               unified_table >>)]_vars
    /\ [][(pc = "sleep" /\ pc' # "sleep" /\ last_processed_timestamp = None) =>
              pc' = "init"]_vars
    /\ [][last_processed_timestamp # None => last_processed_timestamp' # None]_vars
    /\ [][initial_wm # None => initial_wm' = initial_wm]_vars

\* C22 witness: the initialization query faulted, was retried in a later
\* cycle and set the watermark, and the fetch is about to be issued.
C22_Witness ==
    /\ pc = "fetch"
    /\ cycle = "init_fault"
    /\ last_processed_timestamp # None
    /\ client_forms # {}

\* The poller stored an Analysis Record for client c in its last cycle.
PollerStored(c) ==
    \E i \in DOMAIN outcome : outcome[i] = Did([client_id |-> c], "stored")

\* The last on-demand request stored an Analysis Record for client c.
RequestStored(c) ==
    last_request.client_id = c /\ last_request.insert = "stored"

C24_SleevesAndSum ==
    AllocationDone =>
        LET a == derivation.args
            b == base_allocation(Lower(a.risk_tolerance))
            v == derivation.value
        IN  /\ v.gold = b.gold
            /\ v.real_estate = b.real_estate
            /\ (a.age > 50 /\ Lower(a.risk_tolerance) = "low") =>
                  (Total(v) = 110 /\ v.equity = 30)
            /\ ~ (a.age > 50 /\ Lower(a.risk_tolerance) = "low") => Total(v) = 100
            /\ (a.age <= 50 /\ a.emergency_months < 60) => Total(v) = 100

\* C24 witness: the engine returned from the liquidity branch for tolerance
\* low, where the equity floor and the debt cap both bind.
C24_Witness ==
    /\ AllocationDone
    /\ derivation.args.age <= 50
    /\ derivation.args.emergency_months < 60
    /\ derivation.args.risk_tolerance = "LOW"
    /\ Total(derivation.value) = 100

RECURSIVE WellFormedSelected(_, _)
\* The goal records of the entries from i on that are mappings and pass the
\* test of line 86, in key order.
WellFormedSelected(entries, i) ==
    IF i > Len(entries) THEN << >>
    ELSE IF entries[i].mapping /\ Selected(entries[i])
         THEN << GoalRecord(GoalTypes[i], entries[i]) >>
                  \o WellFormedSelected(entries, i + 1)
         ELSE WellFormedSelected(entries, i + 1)

\* C25: for a payload with an entry that is not a mapping, the list returned
\* holds the goal records of all the well-formed selected entries.
C25_MalformedEntryDropped ==
    (/\ GoalsDone
     /\ ~ derivation.raised
     /\ derivation.args.decodes = "mapping"
     /\ \E i \in DOMAIN derivation.args.entries :
            ~ derivation.args.entries[i].mapping) =>
        derivation.value = WellFormedSelected(derivation.args.entries, 1)

\* The three calls on one row have returned.
AnalysisDone ==
    /\ derivation.fn = "analysis"
    /\ derivation.done
    /\ ~ derivation.raised

\* C26: for one intake row with age <= 50, the profiler treats the
\* emergency_fund_ratio as below 6 exactly when the engine applies the
\* liquidity shift, that is, returns something else than the base table.
C26_SameThreshold ==
    (AnalysisDone /\ NumberOf(derivation.args.age) <= 50) =>
        (BelowSixUnrounded(derivation.args)
            <=> derivation.value.portfolio_strategy
                    # base_allocation(derivation.args.risk_tolerance))

====
